---------------------------- MODULE Spec2Model ----------------------------
(***************************************************************************)
(* Model of the arbitrage detection and position-sizing engine of          *)
(* mispriced-probabilities: risk_manager.py (RiskManager), arbitrage.py    *)
(* (ArbitrageOpportunity, ArbitrageDetector, calculate_kelly_fraction) and *)
(* the orchestration of scanner.py (SeerScanner).                          *)
(*                                                                         *)
(* Python floats are modelled as exact rationals [n |-> Int, d |-> Nat],   *)
(* kept in lowest terms with d > 0; rounding error of binary floating      *)
(* point is outside the model.                                             *)
(***************************************************************************)
EXTENDS Integers, Sequences, FiniteSets, TLC

VARIABLES
    rm,          \* the RiskManager object (risk_manager.py:11-16)
    config_ks,   \* config.KILL_SWITCH_ACTIVE / config.KILL_SWITCH_REASON
    today,       \* calendar day of datetime.now()
    call,        \* the operation last invoked, with its arguments
    ret,         \* what that operation returned
    first_halt,  \* history: the first halting check since the last manual reset,
                 \* and the day of that reset
    checked_day, \* history: the day of the latest check_kill_switch call
    scanner,     \* the SeerScanner object (scanner.py:35-46)
    paper_trades,\* the paper_trades table of the database (database.py)
    now,         \* time.time(), in seconds
    watch_mode,  \* config.WATCH_MODE
    pc,          \* where SeerScanner.run stands in its loop
    cycle        \* number of loop iterations of run completed

scanVars == <<scanner, paper_trades, now, watch_mode, pc, cycle>>
vars == <<rm, config_ks, today, call, ret, first_halt, checked_day, scanner, paper_trades, now, watch_mode, pc, cycle>>

-----------------------------------------------------------------------------
(* Exact rational arithmetic standing in for Python float arithmetic.      *)

RECURSIVE GCD(_, _)
GCD(a, b) == IF b = 0 THEN a ELSE GCD(b, a % b)

IAbs(i) == IF i < 0 THEN -i ELSE i

Frac(n, d) ==
    LET s == IF d < 0 THEN -1 ELSE 1
        g == GCD(IAbs(n), IAbs(d))
    IN  [n |-> (s * n) \div g, d |-> (s * d) \div g]

RInt(i) == [n |-> i, d |-> 1]
Zero == RInt(0)
One == RInt(1)

\* Common factors are divided out before multiplying, which keeps the
\* intermediate integers small.
RNeg(x) == [n |-> -x.n, d |-> x.d]
RAdd(x, y) ==
    LET g == GCD(x.d, y.d)
    IN  Frac(x.n * (y.d \div g) + y.n * (x.d \div g), (x.d \div g) * y.d)
RSub(x, y) == RAdd(x, RNeg(y))
RMul(x, y) ==
    LET g1 == GCD(IAbs(x.n), y.d)
        g2 == GCD(IAbs(y.n), x.d)
    IN  Frac((x.n \div g1) * (y.n \div g2), (x.d \div g2) * (y.d \div g1))
\* Only used where the divisor is known to be non-zero.
RDiv(x, y) ==
    RMul(x, IF y.n < 0 THEN [n |-> -y.d, d |-> -y.n]
            ELSE [n |-> y.d, d |-> y.n])
RLt(x, y) ==
    LET g == GCD(x.d, y.d) IN x.n * (y.d \div g) < y.n * (x.d \div g)
RLe(x, y) ==
    LET g == GCD(x.d, y.d) IN x.n * (y.d \div g) <= y.n * (x.d \div g)
RGt(x, y) == RLt(y, x)
RGe(x, y) == RLe(y, x)
RMax(x, y) == IF RLt(x, y) THEN y ELSE x
RMin(x, y) == IF RLt(y, x) THEN y ELSE x
RAbs(x) == [n |-> IAbs(x.n), d |-> x.d]

\* Nearest integer of a non-negative rational, ties to even: what the
\* "{:.1f}" format does to the value it prints.
RoundHalfEven(x) ==
    LET fl == x.n \div x.d
        r2 == 2 * (x.n % x.d)
    IN  IF r2 < x.d THEN fl
        ELSE IF r2 > x.d THEN fl + 1
        ELSE IF fl % 2 = 0 THEN fl ELSE fl + 1

-----------------------------------------------------------------------------
(* Configuration (config.example.py).                                      *)

DAILY_LOSS_LIMIT == Frac(5, 100)
MIN_POSITION_SIZE == Frac(5, 1000)
MAX_POSITION_SIZE == Frac(5, 100)
MAX_POSITION_VALUE == Frac(20, 100)
BASE_POSITION_SIZE == Frac(2, 100)
ARB_MIN_PROFIT == Frac(2, 100)
ARB_MAX_POSITION_DOLLARS == RInt(500)
MAX_CORRELATION == Frac(4, 10)
MIN_PRICE == Frac(85, 100)
INITIAL_BANKROLL == RInt(5000)
MIN_MARKET_SCORE == RInt(6)
MIN_EV == Frac(8, 1000)
SCAN_INTERVAL == 60
_ARB_COOLDOWN_SECONDS == 3600
\* The model's position-count cap; the shipped value is 50.  It is kept
\* below the number of markets one scan can open (two tickers).
MAX_OPEN_POSITIONS == 1

-----------------------------------------------------------------------------
(* RiskManager (risk_manager.py).                                          *)

\* A kill-switch reason: the text, and for the daily-loss message the two
\* numbers it prints with one decimal (in tenths of a percent).
Reason(text, pct, limit) == [text |-> text, pct |-> pct, limit |-> limit]
NoReason == Reason("None", 0, 0)
TooManyErrors == Reason("Too many consecutive errors", 0, 0)

\* f"Daily loss limit exceeded: {daily_loss_pct*100:.1f}% (limit: {..:.1f}%)"
DailyLossReason(daily_loss_pct) ==
    Reason("Daily loss limit exceeded",
           RoundHalfEven(RMul(daily_loss_pct, RInt(1000))),
           RoundHalfEven(RMul(DAILY_LOSS_LIMIT, RInt(1000))))

RiskManagerInit(initial_bankroll, now_day) ==
    [starting_bankroll |-> initial_bankroll,
     daily_start_bankroll |-> initial_bankroll,
     daily_reset_time |-> now_day,
     kill_switch_active |-> FALSE,
     kill_switch_reason |-> NoReason]

KsConfig(active, reason) == [active |-> active, reason |-> reason]

\* Result of a method: the object after the call, the config globals after
\* the call, whether it raised, and the value returned.
Outcome(obj, cfg, raised, value) ==
    [rm |-> obj, cfg |-> cfg, raised |-> raised, value |-> value]

HaltValue(halt, reason) == [halt |-> halt, reason |-> reason]

activate_kill_switch(obj, cfg, reason) ==
    Outcome([obj EXCEPT !.kill_switch_active = TRUE,
                        !.kill_switch_reason = reason],
            KsConfig(TRUE, reason), FALSE, HaltValue(TRUE, reason))

\* Variant: the manual reset also restarts the daily window from the
\* starting bankroll.
deactivate_kill_switch_new_window(obj, cfg) ==
    Outcome([obj EXCEPT !.kill_switch_active = FALSE,
                        !.kill_switch_reason = NoReason,
                        !.daily_start_bankroll = obj.starting_bankroll],
            KsConfig(FALSE, NoReason), FALSE, HaltValue(FALSE, NoReason))

deactivate_kill_switch(obj, cfg) ==
    Outcome([obj EXCEPT !.kill_switch_active = FALSE,
                        !.kill_switch_reason = NoReason],
            KsConfig(FALSE, NoReason), FALSE, HaltValue(FALSE, NoReason))

\* Variant: the comparison of line 42 made with >= instead of >.
daily_loss_check_inclusive(obj, cfg, now_day, current_bankroll) ==
    LET reset == now_day > obj.daily_reset_time
        o1 == IF reset
              THEN [obj EXCEPT !.daily_start_bankroll = current_bankroll,
                               !.daily_reset_time = now_day]
              ELSE obj
        daily_pnl == RSub(current_bankroll, o1.daily_start_bankroll)
        losing == RLt(daily_pnl, Zero)
    IN  IF losing /\ o1.daily_start_bankroll.n = 0
        THEN Outcome(o1, cfg, TRUE, HaltValue(FALSE, NoReason))
        ELSE LET daily_loss_pct ==
                     IF losing
                     THEN RAbs(RDiv(daily_pnl, o1.daily_start_bankroll))
                     ELSE Zero
             IN  IF RGe(daily_loss_pct, DAILY_LOSS_LIMIT)
                 THEN activate_kill_switch(o1, cfg,
                                           DailyLossReason(daily_loss_pct))
                 ELSE Outcome(o1, cfg, FALSE, HaltValue(FALSE, NoReason))

\* Lines 31-48 of check_kill_switch: the daily reset and the loss check.  A
\* losing day measured against a zero daily_start_bankroll raises
\* ZeroDivisionError at line 40, after the reset of lines 33-35 is stored.
daily_loss_check(obj, cfg, now_day, current_bankroll) ==
    LET reset == now_day > obj.daily_reset_time
        o1 == IF reset
              THEN [obj EXCEPT !.daily_start_bankroll = current_bankroll,
                               !.daily_reset_time = now_day]
              ELSE obj
        daily_pnl == RSub(current_bankroll, o1.daily_start_bankroll)
        losing == RLt(daily_pnl, Zero)
    IN  IF losing /\ o1.daily_start_bankroll.n = 0
        THEN Outcome(o1, cfg, TRUE, HaltValue(FALSE, NoReason))
        ELSE LET daily_loss_pct ==
                     IF losing
                     THEN RAbs(RDiv(daily_pnl, o1.daily_start_bankroll))
                     ELSE Zero
             IN  IF RGt(daily_loss_pct, DAILY_LOSS_LIMIT)
                 THEN activate_kill_switch(o1, cfg,
                                           DailyLossReason(daily_loss_pct))
                 ELSE Outcome(o1, cfg, FALSE, HaltValue(FALSE, NoReason))

\* Variant: the early return of lines 28-29 is missing.
check_kill_switch_unlatched(obj, cfg, now_day, current_bankroll) ==
    daily_loss_check(obj, cfg, now_day, current_bankroll)

\* RiskManager.check_kill_switch.
check_kill_switch(obj, cfg, now_day, current_bankroll) ==
    IF obj.kill_switch_active
    THEN Outcome(obj, cfg, FALSE, HaltValue(TRUE, obj.kill_switch_reason))
    ELSE daily_loss_check(obj, cfg, now_day, current_bankroll)

\* sum(p.get("size", 0) for p in open_positions)
RECURSIVE SumSizes(_)
SumSizes(ps) ==
    IF ps = <<>> THEN Zero ELSE RAdd(Head(ps).size, SumSizes(Tail(ps)))

Validation(is_valid, size, reason, raised) ==
    [is_valid |-> is_valid, size |-> size, reason |-> reason,
     raised |-> raised]

\* RiskManager.validate_position_size.  The reason strings are kept as
\* tags.  A zero bankroll raises ZeroDivisionError at line 94.
\* Variant: the exposure branch without the test of lines 98-99, so that
\* whatever headroom is left is accepted.
validate_position_size_any_headroom(size, bankroll, open_positions) ==
    IF RLt(size, MIN_POSITION_SIZE)
    THEN Validation(FALSE, Zero, "Position too small", FALSE)
    ELSE IF RGt(size, MAX_POSITION_SIZE)
    THEN Validation(TRUE, MAX_POSITION_SIZE, "Position capped", FALSE)
    ELSE IF bankroll.n = 0
    THEN Validation(FALSE, Zero, "ZeroDivisionError", TRUE)
    ELSE LET total_exposure == RDiv(SumSizes(open_positions), bankroll)
             new_total == RAdd(total_exposure, size)
             remaining == RMax(RSub(MAX_POSITION_VALUE, total_exposure), Zero)
         IN  IF RGt(new_total, MAX_POSITION_VALUE)
             THEN Validation(TRUE, remaining, "Position reduced", FALSE)
             ELSE Validation(TRUE, size, "OK", FALSE)

validate_position_size(size, bankroll, open_positions) ==
    IF RLt(size, MIN_POSITION_SIZE)
    THEN Validation(FALSE, Zero, "Position too small", FALSE)
    ELSE IF RGt(size, MAX_POSITION_SIZE)
    THEN Validation(TRUE, MAX_POSITION_SIZE, "Position capped", FALSE)
    ELSE IF bankroll.n = 0
    THEN Validation(FALSE, Zero, "ZeroDivisionError", TRUE)
    ELSE LET total_exposure == RDiv(SumSizes(open_positions), bankroll)
             new_total == RAdd(total_exposure, size)
             remaining == RMax(RSub(MAX_POSITION_VALUE, total_exposure), Zero)
         IN  IF RGt(new_total, MAX_POSITION_VALUE)
             THEN IF RLt(remaining, MIN_POSITION_SIZE)
                  THEN Validation(FALSE, Zero, "Max total exposure reached",
                                  FALSE)
                  ELSE Validation(TRUE, remaining, "Position reduced", FALSE)
             ELSE Validation(TRUE, size, "OK", FALSE)

-----------------------------------------------------------------------------
(* ArbitrageOpportunity and ArbitrageDetector (arbitrage.py).              *)

\* The element of a one-element set: Only({e(v) : v \in {x}}) is e(x) with
\* x evaluated once.
Only(S) == CHOOSE x \in S : TRUE

\* Optional[...]: None, or a value.
None == [some |-> FALSE]
Some(v) == [some |-> TRUE, v |-> v]

\* dict.get(key, default) on a dict modelled as a function.
Get(o, key, default) == IF key \in DOMAIN o THEN o[key] ELSE default

\* The fields of the dataclass the model keeps (lines 43-54); market_id,
\* market_title, timestamp and platform take no part in any decision.
Opportunity(arb_type, profit_per_dollar, max_profit, confidence, risk_level, details, spread_cost, net_profit) ==
    [arb_type |-> arb_type, profit_per_dollar |-> profit_per_dollar,
     max_profit |-> max_profit, confidence |-> confidence,
     risk_level |-> risk_level, details |-> details,
     spread_cost |-> spread_cost, net_profit |-> net_profit]

\* Variant: the dataclass without __post_init__ keeps the net_profit passed.
ArbitrageOpportunity_as_passed(arb_type, profit_per_dollar, max_profit, confidence, risk_level, details, spread_cost, net_profit) ==
    Opportunity(arb_type, profit_per_dollar, max_profit, confidence,
                risk_level, details, spread_cost, net_profit)

\* The dataclass constructor followed by __post_init__ (lines 56-58).
ArbitrageOpportunity(arb_type, profit_per_dollar, max_profit, confidence, risk_level, details, spread_cost, net_profit) ==
    Opportunity(arb_type, profit_per_dollar, max_profit, confidence,
                risk_level, details, spread_cost,
                RMax(Zero, RSub(profit_per_dollar, spread_cost)))

\* ArbitrageDetector.__init__: the detector's two thresholds.
ArbitrageDetector(min_profit_threshold, min_net_profit) ==
    [min_profit_threshold |-> min_profit_threshold,
     min_net_profit |-> min_net_profit]

_calculate_spread_cost(yes_bid, yes_ask, no_bid, no_ask) ==
    LET yes_spread == RSub(yes_ask, yes_bid)
        no_spread == RSub(no_ask, no_bid)
    IN  RDiv(RAdd(yes_spread, no_spread), RInt(2))

\* min(1.0, gross_profit / 0.10)
Confidence(gross_profit) == RMin(One, RDiv(gross_profit, Frac(10, 100)))

\* net_profit * liquidity if liquidity > 0 else net_profit * 100
MaxProfit(profit, liquidity) ==
    IF RGt(liquidity, Zero) THEN RMul(profit, liquidity)
    ELSE RMul(profit, RInt(100))

\* yes_ask if yes_ask is not None else yes_bid (lines 205-206)
AskOr(ask, bid) == IF ask.some THEN ask.v ELSE bid

\* The opportunity built at lines 229-248.
SingleLong(yes_bid, yes_ask, no_bid, no_ask, liquidity) ==
    LET buy_cost == RAdd(yes_ask, no_ask)
        gross_profit == RSub(One, buy_cost)
        net_profit == gross_profit
    IN  ArbitrageOpportunity("single_long", gross_profit,
            MaxProfit(net_profit, liquidity), Confidence(gross_profit),
            "risk_free",
            [yes_bid |-> yes_bid, yes_ask |-> yes_ask, no_bid |-> no_bid,
             no_ask |-> no_ask, buy_cost |-> buy_cost,
             liquidity |-> liquidity],
            _calculate_spread_cost(yes_bid, yes_ask, no_bid, no_ask), Zero)

\* The opportunity built at lines 261-280.
SingleShort(yes_bid, yes_ask, no_bid, no_ask, liquidity) ==
    LET sell_value == RAdd(yes_bid, no_bid)
        gross_profit == RSub(sell_value, One)
        net_profit == gross_profit
    IN  ArbitrageOpportunity("single_short", gross_profit,
            MaxProfit(net_profit, liquidity), Confidence(gross_profit),
            "risk_free",
            [yes_bid |-> yes_bid, yes_ask |-> yes_ask, no_bid |-> no_bid,
             no_ask |-> no_ask, sell_value |-> sell_value,
             liquidity |-> liquidity],
            _calculate_spread_cost(yes_bid, yes_ask, no_bid, no_ask), Zero)

\* Variant: the LONG rule returns its opportunity without the
\* min_net_profit test of lines 224-225.
check_single_condition_no_floor(det, yes_bid, no_bid, yes_ask_opt, no_ask_opt, liquidity) ==
    LET yes_ask == AskOr(yes_ask_opt, yes_bid)
        no_ask == AskOr(no_ask_opt, no_bid)
        buy_cost == RAdd(yes_ask, no_ask)
        sell_value == RAdd(yes_bid, no_bid)
    IN  IF RLt(buy_cost, RSub(One, det.min_profit_threshold))
        THEN Some(SingleLong(yes_bid, yes_ask, no_bid, no_ask, liquidity))
        ELSE IF RGt(sell_value, RAdd(One, det.min_profit_threshold))
        THEN IF RLt(RSub(sell_value, One), det.min_net_profit) THEN None
             ELSE Some(SingleShort(yes_bid, yes_ask, no_bid, no_ask,
                                   liquidity))
        ELSE None

\* Variant: a LONG rule whose gross profit is below min_net_profit falls
\* through to the SHORT rule instead of returning None.
check_single_condition_fall_through(det, yes_bid, no_bid, yes_ask_opt, no_ask_opt, liquidity) ==
    LET yes_ask == AskOr(yes_ask_opt, yes_bid)
        no_ask == AskOr(no_ask_opt, no_bid)
        buy_cost == RAdd(yes_ask, no_ask)
        sell_value == RAdd(yes_bid, no_bid)
    IN  IF /\ RLt(buy_cost, RSub(One, det.min_profit_threshold))
           /\ ~RLt(RSub(One, buy_cost), det.min_net_profit)
        THEN Some(SingleLong(yes_bid, yes_ask, no_bid, no_ask, liquidity))
        ELSE IF RGt(sell_value, RAdd(One, det.min_profit_threshold))
        THEN IF RLt(RSub(sell_value, One), det.min_net_profit) THEN None
             ELSE Some(SingleShort(yes_bid, yes_ask, no_bid, no_ask,
                                   liquidity))
        ELSE None

\* ArbitrageDetector.check_single_condition (lines 173-282).
check_single_condition(det, yes_bid, no_bid, yes_ask_opt, no_ask_opt, liquidity) ==
    LET yes_ask == AskOr(yes_ask_opt, yes_bid)
        no_ask == AskOr(no_ask_opt, no_bid)
        buy_cost == RAdd(yes_ask, no_ask)
        sell_value == RAdd(yes_bid, no_bid)
    IN  IF RLt(buy_cost, RSub(One, det.min_profit_threshold))
        THEN IF RLt(RSub(One, buy_cost), det.min_net_profit) THEN None
             ELSE Some(SingleLong(yes_bid, yes_ask, no_bid, no_ask,
                                  liquidity))
        ELSE IF RGt(sell_value, RAdd(One, det.min_profit_threshold))
        THEN IF RLt(RSub(sell_value, One), det.min_net_profit) THEN None
             ELSE Some(SingleShort(yes_bid, yes_ask, no_bid, no_ask,
                                   liquidity))
        ELSE None

\* o.get("yes_bid", 0), o.get("yes_ask", o.get("yes_bid", 0)) and
\* o.get("liquidity", 0) of one outcome dict.
OutcomeBid(o) == Get(o, "yes_bid", Zero)
OutcomeAsk(o) == Get(o, "yes_ask", Get(o, "yes_bid", Zero))
OutcomeLiquidity(o) == Get(o, "liquidity", Zero)

\* The sums of lines 320-324.
RECURSIVE SumAsk(_)
SumAsk(os) ==
    IF os = <<>> THEN Zero ELSE RAdd(OutcomeAsk(Head(os)), SumAsk(Tail(os)))

RECURSIVE SumBid(_)
SumBid(os) ==
    IF os = <<>> THEN Zero ELSE RAdd(OutcomeBid(Head(os)), SumBid(Tail(os)))

\* min((o.get("liquidity", 0) for o in relevant_outcomes), default=0)
RECURSIVE MinLiquidity(_)
MinLiquidity(os) ==
    IF os = <<>> THEN Zero
    ELSE IF Len(os) = 1 THEN OutcomeLiquidity(Head(os))
    ELSE RMin(OutcomeLiquidity(Head(os)), MinLiquidity(Tail(os)))

\* [o for o in outcomes if o.get("yes_bid", 0) >= min_probability_threshold]
RelevantOutcomes(outcomes, min_probability_threshold) ==
    SelectSeq(outcomes,
              LAMBDA o : RGe(OutcomeBid(o), min_probability_threshold))

MultiDetails(relevant, yes_ask_sum, yes_bid_sum, min_liquidity) ==
    [outcomes |-> relevant, yes_ask_sum |-> yes_ask_sum,
     yes_bid_sum |-> yes_bid_sum, num_outcomes |-> Len(relevant),
     min_liquidity |-> min_liquidity]

\* ArbitrageDetector.check_multi_outcome (lines 284-393).
check_multi_outcome(det, outcomes, min_probability_threshold) ==
    LET relevant == RelevantOutcomes(outcomes, min_probability_threshold)
        yes_ask_sum == SumAsk(relevant)
        yes_bid_sum == SumBid(relevant)
        min_liquidity == MinLiquidity(relevant)
        spread_cost == RDiv(RSub(yes_ask_sum, yes_bid_sum), RInt(2))
        details == MultiDetails(relevant, yes_ask_sum, yes_bid_sum,
                                min_liquidity)
    IN  IF Len(outcomes) < 2 THEN None
        ELSE IF Len(relevant) < 2 THEN None
        ELSE IF RLt(yes_ask_sum, RSub(One, det.min_profit_threshold))
        THEN LET gross_profit == RSub(One, yes_ask_sum)
             IN  IF RLt(gross_profit, det.min_net_profit) THEN None
                 ELSE Some(ArbitrageOpportunity("multi_long", gross_profit,
                          MaxProfit(gross_profit, min_liquidity),
                          Confidence(gross_profit), "risk_free", details,
                          spread_cost, Zero))
        ELSE IF RGt(yes_bid_sum, RAdd(One, det.min_profit_threshold))
        THEN LET gross_profit == RSub(yes_bid_sum, One)
             IN  IF RLt(gross_profit, det.min_net_profit) THEN None
                 ELSE Some(ArbitrageOpportunity("multi_short", gross_profit,
                          MaxProfit(gross_profit, min_liquidity),
                          Confidence(gross_profit), "risk_free", details,
                          spread_cost, Zero))
        ELSE None

\* ArbitrageDetector.create_ev_opportunity (lines 395-438).
\* Variant: the thresholds of lines 413 and 415 compared with > instead
\* of >=.
create_ev_opportunity_strict(ev, side, market_price, true_prob, quality_score, liquidity) ==
    LET risk_level ==
            IF RGt(ev, Frac(5, 100)) /\ RGt(quality_score, RInt(8))
            THEN "low_risk"
            ELSE IF RGt(ev, Frac(2, 100)) /\ RGt(quality_score, RInt(6))
            THEN "medium_risk"
            ELSE "high_risk"
    IN  ArbitrageOpportunity("ev_edge", ev, MaxProfit(ev, liquidity),
            RMin(One, RDiv(quality_score, RInt(10))), risk_level,
            [side |-> side, market_price |-> market_price,
             true_prob |-> true_prob, quality_score |-> quality_score,
             liquidity |-> liquidity],
            Zero, Zero)

create_ev_opportunity(ev, side, market_price, true_prob, quality_score, liquidity) ==
    LET risk_level ==
            IF RGe(ev, Frac(5, 100)) /\ RGe(quality_score, RInt(8))
            THEN "low_risk"
            ELSE IF RGe(ev, Frac(2, 100)) /\ RGe(quality_score, RInt(6))
            THEN "medium_risk"
            ELSE "high_risk"
    IN  ArbitrageOpportunity("ev_edge", ev, MaxProfit(ev, liquidity),
            RMin(One, RDiv(quality_score, RInt(10))), risk_level,
            [side |-> side, market_price |-> market_price,
             true_prob |-> true_prob, quality_score |-> quality_score,
             liquidity |-> liquidity],
            Zero, Zero)

\* Variant: the guard of line 462 lets probability = 1 through.
calculate_kelly_fraction_certain(probability, odds, bankroll, kelly_fraction) ==
    IF RLe(probability, Zero) \/ RGt(probability, One) THEN Zero
    ELSE LET b == RSub(odds, One)
             p == probability
             q == RSub(One, p)
         IN  IF RLe(b, Zero) THEN Zero
             ELSE LET kelly == RDiv(RSub(RMul(b, p), q), b)
                  IN  IF RLe(kelly, Zero) THEN Zero
                      ELSE RMax(Zero, RMul(RMul(kelly, kelly_fraction),
                                           bankroll))

\* calculate_kelly_fraction (lines 441-482).
calculate_kelly_fraction(probability, odds, bankroll, kelly_fraction) ==
    IF RLe(probability, Zero) \/ RGe(probability, One) THEN Zero
    ELSE LET b == RSub(odds, One)
             p == probability
             q == RSub(One, p)
         IN  IF RLe(b, Zero) THEN Zero
             ELSE LET kelly == RDiv(RSub(RMul(b, p), q), b)
                  IN  IF RLe(kelly, Zero) THEN Zero
                      ELSE RMax(Zero, RMul(RMul(kelly, kelly_fraction),
                                           bankroll))

\* The ZeroDivisionError a float division by zero raises.
SizingRaised == [raised |-> TRUE, error |-> "ZeroDivisionError"]

OutcomeName(o) == Get(o, "name", "unknown")

\* The dict filled by the loop of lines 535-538: one key per distinct name,
\* a later outcome of the same name overwriting the earlier entry.
OutcomeSizes(outcomes, max_size, total_cost) ==
    [nm \in {OutcomeName(outcomes[i]) : i \in DOMAIN outcomes} |->
        LET last == CHOOSE i \in DOMAIN outcomes :
                        /\ OutcomeName(outcomes[i]) = nm
                        /\ \A j \in DOMAIN outcomes :
                               OutcomeName(outcomes[j]) = nm => j <= i
        IN  RMul(max_size, RDiv(OutcomeAsk(outcomes[last]), total_cost))]

\* Variant: the kelly branch without the cap of line 506.
KellySizing_uncapped(opportunity, bankroll, max_position_pct) ==
    [raised |-> FALSE,
     total_size |-> calculate_kelly_fraction(
                        opportunity.confidence,
                        RAdd(One, opportunity.profit_per_dollar),
                        bankroll, Frac(25, 100)),
     method |-> "kelly"]

\* Lines 498-508: the branch of an opportunity that is not risk free.
KellySizing(opportunity, bankroll, max_position_pct) ==
    LET kelly_size == calculate_kelly_fraction(
                          opportunity.confidence,
                          RAdd(One, opportunity.profit_per_dollar),
                          bankroll, Frac(25, 100))
    IN  [raised |-> FALSE,
         total_size |-> RMin(kelly_size, RMul(bankroll, max_position_pct)),
         method |-> "kelly"]

\* Lines 518-549: the split of max_size over the legs.
RiskFreeSizing(opportunity, max_size) ==
    IF opportunity.arb_type = "single_long"
    THEN LET yes_ask == Get(opportunity.details, "yes_ask", Frac(1, 2))
             no_ask == Get(opportunity.details, "no_ask", Frac(1, 2))
             total_cost == RAdd(yes_ask, no_ask)
         IN  IF total_cost.n = 0 THEN SizingRaised
             ELSE [raised |-> FALSE, total_size |-> max_size,
                   yes_size |-> RMul(max_size, RDiv(yes_ask, total_cost)),
                   no_size |-> RMul(max_size, RDiv(no_ask, total_cost)),
                   method |-> "rebalancing_long"]
    ELSE IF opportunity.arb_type = "multi_long"
    THEN LET outcomes == Get(opportunity.details, "outcomes", <<>>)
             total_cost == Get(opportunity.details, "yes_ask_sum", One)
         IN  IF outcomes # <<>> /\ total_cost.n = 0 THEN SizingRaised
             ELSE [raised |-> FALSE, total_size |-> max_size,
                   outcome_sizes |-> OutcomeSizes(outcomes, max_size,
                                                  total_cost),
                   method |-> "multi_rebalancing_long"]
    ELSE [raised |-> FALSE, total_size |-> max_size, method |-> "default"]

\* Variant: lines 515-517 (the liquidity limit) are missing.
calculate_arb_position_size_no_liquidity(opportunity, bankroll, max_position_pct) ==
    IF opportunity.risk_level # "risk_free"
    THEN KellySizing(opportunity, bankroll, max_position_pct)
    ELSE RiskFreeSizing(opportunity, RMul(bankroll, max_position_pct))

\* calculate_arb_position_size (lines 485-549).
calculate_arb_position_size(opportunity, bankroll, max_position_pct) ==
    IF opportunity.risk_level # "risk_free"
    THEN KellySizing(opportunity, bankroll, max_position_pct)
    ELSE LET max_size == RMul(bankroll, max_position_pct)
         IN  IF RGt(opportunity.max_profit, Zero)
             THEN IF opportunity.profit_per_dollar.n = 0 THEN SizingRaised
                  ELSE RiskFreeSizing(opportunity,
                           RMin(max_size,
                                RDiv(opportunity.max_profit,
                                     opportunity.profit_per_dollar)))
             ELSE RiskFreeSizing(opportunity, max_size)

-----------------------------------------------------------------------------
(* SeerScanner (scanner.py), the paper_trades table (database.py) and the  *)
(* sizing rule of kalshi_scanner/alerter.py.                               *)

\* Market and arbitrage ids are strings; an id is modelled as the tuple of
\* its "::"-separated parts, so that startswith("KALSHI_ARB::") is a test
\* of the first part.
ArbId(prefix, opp) == <<prefix, opp.event_key, opp.strategy>>
IsArbId(market_id) == market_id[1] \in {"POLY_ARB", "KALSHI_ARB"}

\* risk_manager.py:105-120: is_ok of check_position_limits.
check_position_limits(open_positions) ==
    ~(Len(open_positions) >= MAX_OPEN_POSITIONS)

\* kalshi_scanner/alerter.py:43-55.
calculate_position_size(ev, score, corr_penalty) ==
    LET confidence == IF RGe(score, RInt(9)) THEN One
                      ELSE IF RGe(score, RInt(8)) THEN Frac(7, 10)
                      ELSE Frac(5, 10)
        corr_mult == RMax(RSub(One, RDiv(corr_penalty, MAX_CORRELATION)),
                          Frac(3, 10))
        size == RMul(RMul(BASE_POSITION_SIZE, confidence), corr_mult)
    IN  RMin(size, MAX_POSITION_SIZE)

\* SeerScanner.__init__ (lines 35-46); risk_manager is the variable rm,
\* and scan_count, which is only ever printed, is left out.
SeerScanner ==
    [bankroll |-> INITIAL_BANKROLL, sim_positions |-> <<>>,
     error_count |-> 0,
     _resolved_arb_cooldown |-> [k \in {} |-> 0]]

\* The position dict of lines 238-247, 292-301 and 367-376.
Position(market_id, size, side, entry_price, close_time, category) ==
    [market_id |-> market_id, size |-> size, side |-> side,
     entry_price |-> entry_price, close_time |-> close_time,
     category |-> category]

\* database.py:140-166: a new open row of paper_trades.
log_paper_trade(table, position) ==
    Append(table,
           [market_id |-> position.market_id, category |-> position.category,
            size |-> position.size, entry_price |-> position.entry_price,
            close_time |-> position.close_time, side |-> position.side,
            status |-> "open", exit_price |-> None, pnl |-> None,
            win |-> None])

Reverse(s) == [i \in 1..Len(s) |-> s[Len(s) + 1 - i]]

\* database.py:227-260: the open rows, latest first.
get_open_paper_trades(table) ==
    Reverse(SelectSeq(table, LAMBDA row : row.status = "open"))

\* database.py:170-224: closes the latest open row of market_id.
update_paper_trade_result(table, market_id, result, exit_price) ==
    LET rows == {i \in 1..Len(table) : /\ table[i].market_id = market_id
                                       /\ table[i].status = "open"}
    IN  IF rows = {} THEN [table |-> table, value |-> None]
        ELSE LET trade_id == CHOOSE i \in rows : \A j \in rows : j <= i
                 row == table[trade_id]
                 safe_entry == RMax(row.entry_price, Frac(1, 100))
                 contracts == RDiv(row.size, safe_entry)
                 win == \/ (row.side = "YES" /\ result = "yes")
                        \/ (row.side = "NO" /\ result = "no")
                 pnl == IF win THEN RSub(contracts, row.size)
                        ELSE RSub(Zero, row.size)
             IN  [table |-> [table EXCEPT ![trade_id] =
                                [row EXCEPT !.exit_price = Some(exit_price),
                                            !.pnl = Some(pnl),
                                            !.status = "closed",
                                            !.win = Some(win)]],
                  value |-> Some([trade_id |-> trade_id, pnl |-> pnl,
                                  win |-> win, size |-> row.size])]

\* Variant: the lookup never finds an open position.
_has_open_position_never(sc, market_id) == FALSE

\* scanner.py:107-109.
_has_open_position(sc, market_id) ==
    \E i \in 1..Len(sc.sim_positions) :
        sc.sim_positions[i].market_id = market_id

\* Variant: an entry expires once _ARB_COOLDOWN_SECONDS have elapsed, not
\* only after more than that.
_is_arb_on_cooldown_at_least(sc, arb_id, t) ==
    LET cd == sc._resolved_arb_cooldown
        kept == {k \in DOMAIN cd : ~(t - cd[k] >= _ARB_COOLDOWN_SECONDS)}
    IN  [scanner |-> [sc EXCEPT !._resolved_arb_cooldown =
                                    [k \in kept |-> cd[k]]],
         value |-> arb_id \in kept]

\* scanner.py:111-120: drops the expired entries, then looks arb_id up.
_is_arb_on_cooldown(sc, arb_id, t) ==
    LET cd == sc._resolved_arb_cooldown
        kept == {k \in DOMAIN cd : ~(t - cd[k] > _ARB_COOLDOWN_SECONDS)}
    IN  [scanner |-> [sc EXCEPT !._resolved_arb_cooldown =
                                    [k \in kept |-> cd[k]]],
         value |-> arb_id \in kept]

\* scanner.py:122-124.
_mark_arb_resolved(sc, arb_id, t) ==
    LET cd == sc._resolved_arb_cooldown
    IN  [sc EXCEPT !._resolved_arb_cooldown =
            [k \in DOMAIN cd \cup {arb_id} |->
                IF k = arb_id THEN t ELSE cd[k]]]

\* scanner.py:139-142: a close time, when present, strictly after now.
_is_future_close(close_time, t) == close_time.some /\ close_time.v > t

\* What a simulate_* call leaves behind and returns.
Simulated(sc, table, raised, value) ==
    [scanner |-> sc, table |-> table, raised |-> raised, value |-> value]

\* Variant: the position takes the whole bankroll, size_pct being dropped.
simulate_trade_whole_bankroll(sc, table, market, size_pct, side) ==
    IF _has_open_position(sc, market.ticker)
    THEN Simulated(sc, table, FALSE, FALSE)
    ELSE LET entry_price == IF side = "YES" THEN market.yes_price
                            ELSE RSub(One, market.yes_price)
             position == Position(market.ticker, sc.bankroll, side,
                                  RMax(entry_price, Frac(1, 100)),
                                  market.close_time, market.category)
         IN  Simulated([sc EXCEPT !.sim_positions = Append(@, position)],
                       log_paper_trade(table, position), FALSE, TRUE)

\* scanner.py:223-253.
simulate_trade(sc, table, market, size_pct, side) ==
    IF _has_open_position(sc, market.ticker)
    THEN Simulated(sc, table, FALSE, FALSE)
    ELSE LET entry_price == IF side = "YES" THEN market.yes_price
                            ELSE RSub(One, market.yes_price)
             position == Position(market.ticker,
                                  RMul(size_pct, sc.bankroll), side,
                                  RMax(entry_price, Frac(1, 100)),
                                  market.close_time, market.category)
         IN  Simulated([sc EXCEPT !.sim_positions = Append(@, position)],
                       log_paper_trade(table, position), FALSE, TRUE)

\* Variant: the synthetic entry price taken as 1 - r instead of 1 / (1 + r).
simulate_arb_trade_discount(sc, table, prefix, category, opp, t) ==
    LET arb_id == ArbId(prefix, opp)
        cd == _is_arb_on_cooldown(sc, arb_id, t)
        sc1 == cd.scanner
        profit_rate == RMax(RDiv(opp.profit_per_100, RInt(100)), Zero)
        min_profit == RMax(ARB_MIN_PROFIT, Frac(1, 10000))
        edge_mult == RMax(One, RDiv(profit_rate, min_profit))
        capped == RMin(RMul(BASE_POSITION_SIZE, edge_mult), MAX_POSITION_SIZE)
        proposed_size == RMax(capped, MIN_POSITION_SIZE)
        v == validate_position_size(proposed_size, sc1.bankroll,
                                    sc1.sim_positions)
        synthetic_entry_price ==
            RSub(One, RMax(profit_rate, Frac(1, 1000)))
        dollar_size == RMin(RMul(v.size, sc1.bankroll),
                            ARB_MAX_POSITION_DOLLARS)
        position == Position(arb_id, dollar_size, "YES",
                             synthetic_entry_price, opp.close_time, category)
    IN  IF _has_open_position(sc, arb_id)
        THEN Simulated(sc, table, FALSE, FALSE)
        ELSE IF cd.value THEN Simulated(sc1, table, FALSE, FALSE)
        ELSE IF v.raised THEN Simulated(sc1, table, TRUE, FALSE)
        ELSE IF ~v.is_valid THEN Simulated(sc1, table, FALSE, FALSE)
        ELSE IF ~_is_future_close(opp.close_time, t)
        THEN Simulated(sc1, table, FALSE, FALSE)
        ELSE Simulated([sc1 EXCEPT !.sim_positions = Append(@, position)],
                       log_paper_trade(table, position), FALSE, TRUE)

\* The body shared by simulate_kalshi_arb_trade (lines 255-328) and
\* simulate_polymarket_arb_trade (lines 330-403), which differ in the id
\* prefix and the category only.
simulate_arb_trade(sc, table, prefix, category, opp, t) ==
    LET arb_id == ArbId(prefix, opp)
        cd == _is_arb_on_cooldown(sc, arb_id, t)
        sc1 == cd.scanner
        profit_rate == RMax(RDiv(opp.profit_per_100, RInt(100)), Zero)
        min_profit == RMax(ARB_MIN_PROFIT, Frac(1, 10000))
        edge_mult == RMax(One, RDiv(profit_rate, min_profit))
        capped == RMin(RMul(BASE_POSITION_SIZE, edge_mult), MAX_POSITION_SIZE)
        proposed_size == RMax(capped, MIN_POSITION_SIZE)
        v == validate_position_size(proposed_size, sc1.bankroll,
                                    sc1.sim_positions)
        synthetic_entry_price ==
            RDiv(One, RAdd(One, RMax(profit_rate, Frac(1, 1000))))
        dollar_size == RMin(RMul(v.size, sc1.bankroll),
                            ARB_MAX_POSITION_DOLLARS)
        position == Position(arb_id, dollar_size, "YES",
                             synthetic_entry_price, opp.close_time, category)
    IN  IF _has_open_position(sc, arb_id)
        THEN Simulated(sc, table, FALSE, FALSE)
        ELSE IF cd.value THEN Simulated(sc1, table, FALSE, FALSE)
        ELSE IF v.raised THEN Simulated(sc1, table, TRUE, FALSE)
        ELSE IF ~v.is_valid THEN Simulated(sc1, table, FALSE, FALSE)
        ELSE IF ~_is_future_close(opp.close_time, t)
        THEN Simulated(sc1, table, FALSE, FALSE)
        ELSE Simulated([sc1 EXCEPT !.sim_positions = Append(@, position)],
                       log_paper_trade(table, position), FALSE, TRUE)

simulate_kalshi_arb_trade(sc, table, opp, t) ==
    simulate_arb_trade(sc, table, "KALSHI_ARB", "kalshi_arb", opp, t)

simulate_polymarket_arb_trade(sc, table, opp, t) ==
    simulate_arb_trade(sc, table, "POLY_ARB", "polymarket_arb", opp, t)

\* portfolio_manager.get_market_result: the venue's answer for a ticker,
\* None while the market has not settled.
get_market_result(results, market_id) ==
    IF results[market_id] = "open" THEN None ELSE Some(results[market_id])

\* Variant: the close-time test of lines 416-425 is missing.
RECURSIVE resolve_loop_any_time(_, _, _, _, _)
resolve_loop_any_time(sc, table, open_trades, results, t) ==
    IF open_trades = <<>> THEN [scanner |-> sc, table |-> table]
    ELSE LET trade == Head(open_trades)
             rest == Tail(open_trades)
             closed == TRUE
             result == IF IsArbId(trade.market_id) THEN Some("yes")
                       ELSE get_market_result(results, trade.market_id)
             exit_price == IF trade.side = "YES"
                           THEN (IF result.v = "yes" THEN One ELSE Zero)
                           ELSE (IF result.v = "no" THEN One ELSE Zero)
             credited(upd) ==
                 [sc EXCEPT !.bankroll = RAdd(@, upd.value.v.pnl)]
             marked(upd) ==
                 _mark_arb_resolved(credited(upd), trade.market_id, t)
             removed(upd) ==
                 [marked(upd) EXCEPT !.sim_positions =
                     SelectSeq(@, LAMBDA p : p.market_id # trade.market_id)]
             after(upd) ==
                 IF ~upd.value.some THEN [scanner |-> sc, table |-> upd.table]
                 ELSE [scanner |-> removed(upd), table |-> upd.table]
         IN  IF ~closed \/ ~result.some
             THEN resolve_loop_any_time(sc, table, rest, results, t)
             ELSE Only({resolve_loop_any_time(a.scanner, a.table, rest, results, t) :
                        a \in {after(update_paper_trade_result(
                                    table, trade.market_id, result.v,
                                    exit_price))}})

\* scanner.py:414-479: the loop of resolve_paper_trades over the trades
\* that were open when the pass began.
RECURSIVE resolve_loop(_, _, _, _, _)
resolve_loop(sc, table, open_trades, results, t) ==
    IF open_trades = <<>> THEN [scanner |-> sc, table |-> table]
    ELSE LET trade == Head(open_trades)
             rest == Tail(open_trades)
             closed == trade.close_time.some /\ ~(t < trade.close_time.v)
             result == IF IsArbId(trade.market_id) THEN Some("yes")
                       ELSE get_market_result(results, trade.market_id)
             exit_price == IF trade.side = "YES"
                           THEN (IF result.v = "yes" THEN One ELSE Zero)
                           ELSE (IF result.v = "no" THEN One ELSE Zero)
             credited(upd) ==
                 [sc EXCEPT !.bankroll = RAdd(@, upd.value.v.pnl)]
             marked(upd) ==
                 _mark_arb_resolved(credited(upd), trade.market_id, t)
             removed(upd) ==
                 [marked(upd) EXCEPT !.sim_positions =
                     SelectSeq(@, LAMBDA p : p.market_id # trade.market_id)]
             after(upd) ==
                 IF ~upd.value.some THEN [scanner |-> sc, table |-> upd.table]
                 ELSE [scanner |-> removed(upd), table |-> upd.table]
         IN  IF ~closed \/ ~result.some
             THEN resolve_loop(sc, table, rest, results, t)
             ELSE Only({resolve_loop(a.scanner, a.table, rest, results, t) :
                        a \in {after(update_paper_trade_result(
                                    table, trade.market_id, result.v,
                                    exit_price))}})

\* scanner.py:405-482.
resolve_paper_trades(sc, table, results, t) ==
    resolve_loop(sc, table, get_open_paper_trades(table), results, t)

\* scanner.py:522-589: the loop of scan_markets over the filtered markets.
\* score_market, calculate_ev and correlation_penalty read market data
\* only; their values arrive with the market.
RECURSIVE scan_loop(_, _, _, _)
scan_loop(sc, table, filtered, watch) ==
    IF filtered = <<>>
    THEN [scanner |-> sc, table |-> table, raised |-> FALSE]
    ELSE LET market == Head(filtered)
             rest == Tail(filtered)
             side == IF RGe(market.yes_price, MIN_PRICE) THEN "NO" ELSE "YES"
             size_pct == calculate_position_size(market.ev,
                                                 market.quality_score,
                                                 market.corr_penalty)
             v == validate_position_size(size_pct, sc.bankroll,
                                         sc.sim_positions)
         IN  IF _has_open_position(sc, market.ticker)
             THEN scan_loop(sc, table, rest, watch)
             ELSE IF RLt(market.quality_score, MIN_MARKET_SCORE)
             THEN scan_loop(sc, table, rest, watch)
             ELSE IF RLe(market.ev, MIN_EV)
             THEN scan_loop(sc, table, rest, watch)
             ELSE IF RGt(market.corr_penalty, MAX_CORRELATION)
             THEN scan_loop(sc, table, rest, watch)
             ELSE IF v.raised
             THEN [scanner |-> sc, table |-> table, raised |-> TRUE]
             ELSE IF ~v.is_valid \/ watch
             THEN scan_loop(sc, table, rest, watch)
             ELSE Only({scan_loop(sim.scanner, sim.table, rest, watch) :
                        sim \in {simulate_trade(sc, table, market, v.size,
                                                side)}})

\* What scan_markets leaves behind: the scanner, the risk manager, the
\* config flags, the table and the seconds it slept.
Scanned(sc, risk, cfg, table, slept, path) ==
    [scanner |-> sc, rm |-> risk, cfg |-> cfg, table |-> table,
     slept |-> slept, path |-> path]

\* Variant: the emergency stop of line 616 at four errors instead of five.
emergency_stop_at_four(s) ==
    IF s.scanner.error_count >= 4
    THEN LET out == activate_kill_switch(s.rm, s.cfg, TooManyErrors)
         IN  [s EXCEPT !.rm = out.rm, !.cfg = out.cfg]
    ELSE s

\* scanner.py:615-622: the emergency stop that ends scan_markets when the
\* try block did not return.
emergency_stop(s) ==
    IF s.scanner.error_count >= 5
    THEN LET out == activate_kill_switch(s.rm, s.cfg, TooManyErrors)
         IN  [s EXCEPT !.rm = out.rm, !.cfg = out.cfg]
    ELSE s

\* scanner.py:599-613: every except clause counts one error.
scan_error(sc, risk, cfg, table) ==
    emergency_stop(Scanned([sc EXCEPT !.error_count = @ + 1], risk, cfg,
                           table, 0, "error"))

\* SeerScanner.scan_markets (lines 484-622).  fetched is None when
\* fetch_markets_data raises, else the markets left by filter_markets.
scan_markets(sc, risk, cfg, table, day, t, results, fetched, watch) ==
    LET done(loop) == [loop.scanner EXCEPT !.error_count = 0]
        scanned(chk, loop) ==
            IF loop.raised
            THEN scan_error(loop.scanner, chk.rm, chk.cfg, loop.table)
            ELSE emergency_stop(Scanned(done(loop), chk.rm, chk.cfg,
                                        loop.table, 0, "scanned"))
        resolved(chk, res) ==
            IF ~fetched.some
            THEN scan_error(res.scanner, chk.rm, chk.cfg, res.table)
            ELSE IF ~check_position_limits(res.scanner.sim_positions)
            THEN Scanned(res.scanner, chk.rm, chk.cfg, res.table, 0, "limit")
            ELSE Only({scanned(chk, loop) :
                       loop \in {scan_loop(res.scanner, res.table,
                                           fetched.v, watch)}})
        checked(chk) ==
            IF chk.raised THEN scan_error(sc, chk.rm, chk.cfg, table)
            ELSE IF chk.value.halt
            THEN Scanned(sc, chk.rm, chk.cfg, table, 3600, "halted")
            ELSE Only({resolved(chk, res) :
                       res \in {resolve_paper_trades(sc, table, results,
                                                     t)}})
    IN  Only({checked(chk) :
              chk \in {check_kill_switch(risk, cfg, day, sc.bankroll)}})

\* The loop shared by execute_kalshi_arbitrage and
\* execute_polymarket_arbitrage over opportunities[:available_slots].
RECURSIVE execute_loop(_, _, _, _, _, _)
execute_loop(sc, table, prefix, category, opps, t) ==
    IF opps = <<>> THEN Simulated(sc, table, FALSE, 0)
    ELSE LET rest(sim) == execute_loop(sim.scanner, sim.table, prefix,
                                       category, Tail(opps), t)
             counted(sim) ==
                 IF sim.raised THEN Simulated(sim.scanner, sim.table, TRUE, 0)
                 ELSE [rest(sim) EXCEPT
                          !.value = @ + (IF sim.value THEN 1 ELSE 0)]
         IN  Only({counted(sim) :
                   sim \in {simulate_arb_trade(sc, table, prefix, category,
                                               Head(opps), t)}})

\* The guards of lines 816-823 and 910-917 (PAPER_TRADING_MODE and the
\* *_PAPER_ARB_EXECUTION flags are on), then the loop.
execute_arbitrage(sc, table, prefix, category, opportunities, t, watch) ==
    LET slots == MAX_OPEN_POSITIONS - Len(sc.sim_positions)
        available_slots == IF slots > 0 THEN slots ELSE 0
        n == IF available_slots < Len(opportunities) THEN available_slots
             ELSE Len(opportunities)
    IN  IF watch THEN Simulated(sc, table, FALSE, 0)
        ELSE IF available_slots <= 0 THEN Simulated(sc, table, FALSE, 0)
        ELSE execute_loop(sc, table, prefix, category,
                          SubSeq(opportunities, 1, n), t)

\* scanner.py:908-924.
execute_kalshi_arbitrage(sc, table, opportunities, t, watch) ==
    execute_arbitrage(sc, table, "KALSHI_ARB", "kalshi_arb", opportunities, t, watch)

\* scanner.py:814-830.
execute_polymarket_arbitrage(sc, table, opportunities, t, watch) ==
    execute_arbitrage(sc, table, "POLY_ARB", "polymarket_arb", opportunities, t, watch)

-----------------------------------------------------------------------------
(* Bounds and input grids.                                                 *)

MaxDay == 2
MaxOutcomes == 3
MaxOpenLen == 2

P(cents) == Frac(cents, 100)

SeqsUpTo(S, n) == UNION {[1..k -> S] : k \in 0..n}

Pending == [kind |-> "pending"]
Returned(v) == [kind |-> "returned", value |-> v]
Raised(v) == [kind |-> "raised", value |-> v]

NoHalt == [set |-> FALSE, reason |-> NoReason, day |-> 0, again |-> FALSE, reset_day |-> -1]

InitialBankroll == RInt(1000)
Bankrolls == {RInt(-100), RInt(0), RInt(900), RInt(940), RInt(950), RInt(1000), RInt(1100)}

Detectors == {ArbitrageDetector(P(2), Frac(5, 1000)), ArbitrageDetector(P(2), P(5))}
Bids == {Zero, P(10), P(45), P(48), P(52), P(90)}
Asks == {None} \cup {Some(P(c)) : c \in {10, 46, 49, 50, 95}}
Liquidities == {Zero, RInt(10000)}

OutcomeSet ==
    { [yes_bid |-> P(1), yes_ask |-> P(3), liquidity |-> RInt(1000)],
      [name |-> "A", yes_bid |-> P(50), yes_ask |-> P(51), liquidity |-> RInt(100000)],
      [name |-> "B", yes_bid |-> P(42), yes_ask |-> P(43), liquidity |-> RInt(100000)],
      [yes_bid |-> P(2), yes_ask |-> P(3), liquidity |-> RInt(10000)],
      [yes_bid |-> P(30), yes_ask |-> P(31), liquidity |-> Zero],
      [yes_bid |-> P(30)],
      [name |-> "A", yes_bid |-> P(60), yes_ask |-> P(40), liquidity |-> RInt(50)],
      [name |-> "C", yes_bid |-> P(60), yes_ask |-> P(62), liquidity |-> RInt(200)] }

ArbTypes == {"single_long", "single_short", "multi_long", "multi_short", "cross_market", "ev_edge"}
RiskLevels == {"risk_free", "low_risk", "medium_risk", "high_risk"}

SingleCalls ==
    [op : {"check_single_condition"}, det : Detectors, yes_bid : Bids,
     no_bid : Bids, yes_ask : Asks, no_ask : Asks, liquidity : Liquidities]

MultiCalls ==
    [op : {"check_multi_outcome"}, det : Detectors,
     outcomes : SeqsUpTo(OutcomeSet, MaxOutcomes),
     min_probability_threshold : {P(2)}]

EvCalls ==
    [op : {"create_ev_opportunity"},
     ev : {P(-1), P(1), P(2), P(5), P(8)},
     quality_score : {RInt(0), RInt(5), RInt(6), RInt(8), RInt(10), RInt(12)},
     side : {"YES", "NO"}, market_price : {P(90)}, true_prob : {P(80)},
     liquidity : {Zero, RInt(1000)}]

KellyCalls ==
    [op : {"calculate_kelly_fraction"},
     probability : {P(-10), Zero, P(30), P(50), P(60), One, P(110)},
     odds : {P(50), One, P(150), RInt(2), RInt(3)},
     bankroll : {Zero, RInt(100), RInt(1000)},
     kelly_fraction : {Zero, P(25), P(50), One}]

ConstructCalls ==
    [op : {"ArbitrageOpportunity"}, arb_type : ArbTypes,
     profit_per_dollar : {P(-5), Zero, P(3), P(10)},
     spread_cost : {P(-2), Zero, P(1), P(5), P(20)},
     net_profit : {RInt(-1), Zero, P(3), One},
     risk_level : RiskLevels]

ValidateCalls ==
    [op : {"validate_position_size"},
     size : {Frac(1, 1000), Frac(5, 1000), P(2), P(5), P(6), P(30)},
     bankroll : {Zero, RInt(100), RInt(1000), RInt(5000)},
     open_positions :
         SeqsUpTo([size : {RInt(10), RInt(18), RInt(100), RInt(180)}],
                  MaxOpenLen)]

\* RiskManager objects a direct call can be made on: as constructed, halted
\* by a daily loss, halted by the emergency stop, and with the day's starting
\* bankroll reset to zero by a check of an empty bankroll.
RmFresh == RiskManagerInit(InitialBankroll, 0)
RmDailyLoss == activate_kill_switch(RmFresh, KsConfig(FALSE, NoReason), DailyLossReason(P(6))).rm
RmErrors == activate_kill_switch(RmFresh, KsConfig(FALSE, NoReason), TooManyErrors).rm
RmEmpty == [RmFresh EXCEPT !.daily_start_bankroll = Zero]
RmObjects == {RmFresh, RmDailyLoss, RmErrors, RmEmpty}

ConfigOf(obj) == KsConfig(obj.kill_switch_active, obj.kill_switch_reason)

ActivateCalls ==
    [op : {"activate_kill_switch"}, obj : RmObjects,
     reason : {TooManyErrors, DailyLossReason(P(6)), DailyLossReason(P(7))}]

CheckCalls ==
    [op : {"check_kill_switch"}, obj : RmObjects, now_day : {0, 1},
     current_bankroll : Bankrolls]

\* The opportunities handed to calculate_arb_position_size: whatever the
\* detector returns on the grids above, the EV opportunities, and dataclass
\* instances built directly (no yes_ask, no_ask or outcomes in details).
Found(results) == {r.v : r \in {x \in results : x.some}}

DetectedOpportunities ==
    Found({check_single_condition(c.det, c.yes_bid, c.no_bid, c.yes_ask, c.no_ask, c.liquidity) : c \in SingleCalls})
        \cup Found({check_multi_outcome(c.det, c.outcomes, c.min_probability_threshold) : c \in MultiCalls})

EvOpportunities ==
    {create_ev_opportunity(c.ev, c.side, c.market_price, c.true_prob, c.quality_score, c.liquidity) : c \in EvCalls}

BuiltOpportunities ==
    {ArbitrageOpportunity(t, ppd, mp, conf, rl, [action |-> "none"], Zero, ppd) :
        t \in ArbTypes, ppd \in {P(3), P(10)}, mp \in {Zero, RInt(30)},
        conf \in {P(30), P(95), One}, rl \in {"risk_free", "medium_risk"}}

SizingCalls ==
    [op : {"calculate_arb_position_size"},
     opportunity : DetectedOpportunities \cup EvOpportunities \cup BuiltOpportunities,
     bankroll : {RInt(-100), Zero, RInt(1000), RInt(5000)},
     max_position_pct : {P(5), P(20)}]

CallInputs ==
    SingleCalls \cup MultiCalls \cup EvCalls \cup KellyCalls
        \cup ConstructCalls \cup ValidateCalls \cup ActivateCalls
        \cup CheckCalls \cup SizingCalls

-----------------------------------------------------------------------------
(* SpecCalls: one call of a pure function on inputs drawn by Init.         *)

ScannerIdle ==
    /\ scanner = SeerScanner
    /\ paper_trades = <<>>
    /\ now = 0
    /\ watch_mode = TRUE
    /\ pc = "idle"
    /\ cycle = 0

InitCalls ==
    /\ ScannerIdle
    /\ rm = RiskManagerInit(InitialBankroll, 0)
    /\ config_ks = KsConfig(FALSE, NoReason)
    /\ today = 0
    /\ first_halt = NoHalt
    /\ checked_day = 0
    /\ call \in CallInputs
    /\ ret = Pending

Apply(op, value) ==
    /\ call.op = op
    /\ ret.kind = "pending"
    /\ ret' = Returned(value)
    /\ UNCHANGED <<rm, config_ks, today, call, first_halt, checked_day>>
    /\ UNCHANGED scanVars

ApplyCheckSingleCondition ==
    /\ call.op = "check_single_condition"
    /\ Apply("check_single_condition",
             check_single_condition(call.det, call.yes_bid, call.no_bid,
                                    call.yes_ask, call.no_ask,
                                    call.liquidity))

ApplyCheckMultiOutcome ==
    /\ call.op = "check_multi_outcome"
    /\ Apply("check_multi_outcome",
             check_multi_outcome(call.det, call.outcomes,
                                 call.min_probability_threshold))

ApplyCreateEvOpportunity ==
    /\ call.op = "create_ev_opportunity"
    /\ Apply("create_ev_opportunity",
             Some(create_ev_opportunity(call.ev, call.side, call.market_price,
                                        call.true_prob, call.quality_score,
                                        call.liquidity)))

ApplyConstruct ==
    /\ call.op = "ArbitrageOpportunity"
    /\ Apply("ArbitrageOpportunity",
             Some(ArbitrageOpportunity(call.arb_type, call.profit_per_dollar,
                                       Zero, One, call.risk_level,
                                       [action |-> "none"], call.spread_cost,
                                       call.net_profit)))

ApplyKelly ==
    /\ call.op = "calculate_kelly_fraction"
    /\ Apply("calculate_kelly_fraction",
             calculate_kelly_fraction(call.probability, call.odds,
                                      call.bankroll, call.kelly_fraction))

ApplyValidatePositionSize ==
    /\ call.op = "validate_position_size"
    /\ Apply("validate_position_size",
             validate_position_size(call.size, call.bankroll,
                                    call.open_positions))

ApplyActivateKillSwitch ==
    /\ call.op = "activate_kill_switch"
    /\ Apply("activate_kill_switch",
             activate_kill_switch(call.obj, ConfigOf(call.obj), call.reason))

ApplyCheckKillSwitch ==
    /\ call.op = "check_kill_switch"
    /\ Apply("check_kill_switch",
             check_kill_switch(call.obj, ConfigOf(call.obj), call.now_day,
                               call.current_bankroll))

ApplyCalculateArbPositionSize ==
    /\ call.op = "calculate_arb_position_size"
    /\ Apply("calculate_arb_position_size",
             calculate_arb_position_size(call.opportunity, call.bankroll,
                                         call.max_position_pct))

NextCalls ==
    \/ ApplyCheckSingleCondition
    \/ ApplyCheckMultiOutcome
    \/ ApplyCreateEvOpportunity
    \/ ApplyConstruct
    \/ ApplyKelly
    \/ ApplyValidatePositionSize
    \/ ApplyActivateKillSwitch
    \/ ApplyCheckKillSwitch
    \/ ApplyCalculateArbPositionSize

SpecCalls == InitCalls /\ [][NextCalls]_vars

-----------------------------------------------------------------------------
(* SpecRisk: the RiskManager object driven by its callers.                 *)

InitRisk ==
    /\ ScannerIdle
    /\ rm = RiskManagerInit(InitialBankroll, 0)
    /\ config_ks = KsConfig(FALSE, NoReason)
    /\ today = 0
    /\ first_halt = NoHalt
    /\ checked_day = 0
    /\ call = [op |-> "__init__"]
    /\ ret = Pending

\* The history of halting checks since the last manual reset.
NoteCheck(out) ==
    IF out.raised THEN first_halt
    ELSE IF first_halt.set THEN [first_halt EXCEPT !.again = TRUE]
    ELSE IF out.value.halt
    THEN [set |-> TRUE, reason |-> out.value.reason, day |-> today,
          again |-> FALSE, reset_day |-> first_halt.reset_day]
    ELSE first_halt

\* scanner.py:488: check_kill_switch(self.bankroll), any bankroll.
CheckKillSwitch ==
    \E b \in Bankrolls :
        LET out == check_kill_switch(rm, config_ks, today, b)
        IN  /\ rm' = out.rm
            /\ config_ks' = out.cfg
            /\ call' = [op |-> "check_kill_switch", current_bankroll |-> b]
            /\ ret' = IF out.raised THEN Raised(out.value)
                      ELSE Returned(out.value)
            /\ first_halt' = NoteCheck(out)
            /\ checked_day' = today
            /\ UNCHANGED <<today, scanVars>>

\* scanner.py:615-622: the emergency stop after repeated errors.  It is
\* reached only in a cycle whose check_kill_switch (line 488) returned
\* halt = False, so the switch is inactive when it runs.
EmergencyStop ==
    /\ ~rm.kill_switch_active
    /\ LET out == activate_kill_switch(rm, config_ks, TooManyErrors)
       IN  /\ rm' = out.rm
           /\ config_ks' = out.cfg
           /\ call' = [op |-> "activate_kill_switch", reason |-> TooManyErrors]
           /\ ret' = Returned(out.value)
    /\ UNCHANGED <<today, first_halt, checked_day, scanVars>>

\* The manual reset.
DeactivateKillSwitch ==
    /\ LET out == deactivate_kill_switch(rm, config_ks)
       IN  /\ rm' = out.rm
           /\ config_ks' = out.cfg
           /\ ret' = Returned(out.value)
    /\ call' = [op |-> "deactivate_kill_switch"]
    /\ first_halt' = [NoHalt EXCEPT !.reset_day = today]
    /\ UNCHANGED <<today, checked_day, scanVars>>

\* Midnight passes.
NextDay ==
    /\ today < MaxDay
    /\ today' = today + 1
    /\ call' = [op |-> "midnight"]
    /\ ret' = Pending
    /\ UNCHANGED <<rm, config_ks, first_halt, checked_day, scanVars>>

NextRisk ==
    \/ CheckKillSwitch
    \/ EmergencyStop
    \/ DeactivateKillSwitch
    \/ NextDay

SpecRisk == InitRisk /\ [][NextRisk]_vars

-----------------------------------------------------------------------------
(* SpecScanner: the loop of SeerScanner.run (scanner.py:980-1084) in paper *)
(* trading mode.  Market data, settlement results and elapsed time are the *)
(* environment's.                                                          *)

MaxCycles == 4
MaxTrades == 2

Tickers == {<<"T1">>, <<"T2">>}

Market(ticker, yes_price, quality_score, corr_penalty, close_time) ==
    [ticker |-> ticker, yes_price |-> yes_price,
     quality_score |-> quality_score, ev |-> P(2),
     corr_penalty |-> corr_penalty, close_time |-> close_time,
     category |-> "kalshi"]

\* Markets that pass filter_markets (lines 184-221) at time t: the price
\* is at most 0.15 or at least 0.85 and the close time, when present, is
\* not in the past.
MarketsAt(t) ==
    { Market(<<"T1">>, P(90), RInt(9), Zero, Some(t + 60)),
      Market(<<"T2">>, P(10), RInt(9), Zero, None),
      Market(<<"T2">>, P(10), RInt(6), P(40), Some(t + 60)) }

\* The environment stops offering markets and opportunities once the table
\* holds MaxTrades rows.
Offering == Len(paper_trades) < MaxTrades

Fetches(t) ==
    {None, Some(<<>>)}
        \cup (IF Offering THEN {Some(ms) : ms \in SeqsUpTo(MarketsAt(t), 2) \ {<<>>}}
              ELSE {})

Opp(event_key, strategy, profit_per_100, close_time) ==
    [event_key |-> event_key, strategy |-> strategy,
     profit_per_100 |-> profit_per_100, close_time |-> close_time]

\* What the arbitrage scans return (lines 671-687): at most one
\* opportunity per event, at least ARB_MIN_PROFIT, most profitable first.
Offers(t) ==
    <<Opp("E1", "BUY_ALL_NO", RInt(10), Some(t + 120)),
      Opp("E2", "BUY_ALL_YES", RInt(4), Some(t + 60))>>

OppListsAt(t) ==
    LET a == Offers(t)[1]
        b == Offers(t)[2]
    IN  {<<>>} \cup (IF Offering THEN {<<a>>, <<a, b>>} ELSE {})

Elapsed == {SCAN_INTERVAL, 86400}

\* What get_market_result answers at time t: a ticker may have settled
\* only when a trade on it has reached its close time.
ResultsAt(t) ==
    LET due(k) == \E i \in 1..Len(paper_trades) :
                      /\ paper_trades[i].market_id = k
                      /\ paper_trades[i].status = "open"
                      /\ paper_trades[i].close_time.some
                      /\ paper_trades[i].close_time.v <= t
    IN  {r \in [Tickers -> {"open", "yes", "no"}] :
            \A k \in Tickers : ~due(k) => r[k] = "open"}

\* run, lines 935-946: sim_positions is rebuilt from the open rows of
\* paper_trades before the first scan.
RestoredPositions(table) ==
    LET rows == get_open_paper_trades(table)
    IN  [i \in 1..Len(rows) |->
            Position(rows[i].market_id, rows[i].size, rows[i].side,
                     rows[i].entry_price, rows[i].close_time,
                     rows[i].category)]

\* The table found at start-up: empty, or holding one open trade that an
\* earlier paper-trading run logged and that has reached its close time.
LeftTables ==
    {<<>>,
     log_paper_trade(<<>>, Position(<<"T1">>, RInt(100), "NO", Frac(1, 10),
                                    Some(0), "kalshi"))}

InitScanner ==
    /\ paper_trades \in LeftTables
    /\ scanner = [SeerScanner EXCEPT
                     !.sim_positions = RestoredPositions(paper_trades)]
    /\ rm = RiskManagerInit(INITIAL_BANKROLL, 0)
    /\ config_ks = KsConfig(FALSE, NoReason)
    /\ now = 0
    /\ today = 0
    /\ watch_mode \in BOOLEAN
    /\ pc = "scan_markets"
    /\ cycle = 0
    /\ first_halt = NoHalt
    /\ checked_day = 0
    /\ call = [op |-> "run"]
    /\ ret = Pending

\* run, step 1 (line 981): self.scan_markets().
ScanMarkets ==
    /\ pc = "scan_markets"
    /\ \E results \in ResultsAt(now), fetched \in Fetches(now) :
        \E s \in {scan_markets(scanner, rm, config_ks, paper_trades, today,
                              now, results, fetched, watch_mode)} :
            /\ scanner' = s.scanner
            /\ rm' = s.rm
            /\ config_ks' = s.cfg
            /\ paper_trades' = s.table
            /\ now' = now + s.slept
            /\ today' = (now + s.slept) \div 86400
            /\ ret' = Returned(s.path)
    /\ call' = [op |-> "scan_markets"]
    /\ pc' = "kalshi"
    /\ checked_day' = today
    /\ UNCHANGED <<first_halt, watch_mode, cycle>>

\* What an execute_* step leaves behind; an exception that escapes it is
\* not caught by run (line 1086 catches KeyboardInterrupt only).
Executed(op, e, next) ==
    /\ scanner' = e.scanner
    /\ paper_trades' = e.table
    /\ call' = [op |-> op]
    /\ ret' = IF e.raised THEN Raised("ZeroDivisionError")
              ELSE Returned(e.value)
    /\ pc' = IF e.raised THEN "crashed" ELSE next
    /\ UNCHANGED <<rm, config_ks, today, first_halt, checked_day, now,
                 watch_mode, cycle>>

\* run, step 2 (lines 984-1003): the Kalshi arbitrage scan, executed when
\* it found anything.
ExecuteKalshiArbitrage ==
    /\ pc = "kalshi"
    /\ \E kalshi_opps \in OppListsAt(now) :
        \E e \in {IF kalshi_opps = <<>>
                  THEN Simulated(scanner, paper_trades, FALSE, 0)
                  ELSE execute_kalshi_arbitrage(scanner, paper_trades,
                                                kalshi_opps, now,
                                                watch_mode)} :
            Executed("execute_kalshi_arbitrage", e, "polymarket")

\* run, step 3 (lines 1006-1024): the same for Polymarket.
ExecutePolymarketArbitrage ==
    /\ pc = "polymarket"
    /\ \E poly_opps \in {opps \in OppListsAt(now) : Len(opps) <= 1} :
        \E e \in {IF poly_opps = <<>>
                  THEN Simulated(scanner, paper_trades, FALSE, 0)
                  ELSE execute_polymarket_arbitrage(scanner, paper_trades,
                                                    poly_opps, now,
                                                    watch_mode)} :
            Executed("execute_polymarket_arbitrage", e, "sleep")

\* run, line 1084: time.sleep(config.SCAN_INTERVAL); the cycle took
\* SCAN_INTERVAL seconds or, the machine having been suspended, a day.
Sleep ==
    /\ pc = "sleep"
    /\ cycle < MaxCycles
    /\ \E e \in Elapsed :
        /\ (now + e) \div 86400 <= MaxDay
        /\ now' = now + e
        /\ today' = (now + e) \div 86400
    /\ cycle' = cycle + 1
    /\ pc' = "scan_markets"
    /\ call' = [op |-> "sleep"]
    /\ ret' = Pending
    /\ UNCHANGED <<rm, config_ks, first_halt, checked_day, scanner,
                 paper_trades, watch_mode>>

NextScanner ==
    \/ ScanMarkets
    \/ ExecuteKalshiArbitrage
    \/ ExecutePolymarketArbitrage
    \/ Sleep

SpecScanner == InitScanner /\ [][NextScanner]_vars

-----------------------------------------------------------------------------
(* Properties.                                                             *)

ReturnedFrom(ops) == call.op \in ops /\ ret.kind = "returned"
ReturnedOpp(ops) == ReturnedFrom(ops) /\ ret.value.some

\* C1: once check_kill_switch has returned (True, reason), every later
\* check_kill_switch on the same day with no manual reset in between
\* returns (True, the same reason), whatever current_bankroll is passed.
C1_KillSwitchLatched ==
    (call.op = "check_kill_switch" /\ first_halt.set
        /\ first_halt.day = today)
    => (ret.kind = "returned"
        /\ ret.value = HaltValue(TRUE, first_halt.reason))

\* C1 witness: a later check, the same day, with a bankroll back at or above
\* the day's start, still halts.
C1_Witness ==
    /\ call.op = "check_kill_switch"
    /\ first_halt.set /\ first_halt.again /\ first_halt.day = today
    /\ first_halt.reason.text = "Daily loss limit exceeded"
    /\ RGe(call.current_bankroll, rm.daily_start_bankroll)
    /\ ret.kind = "returned" /\ ret.value.halt

\* C2: whenever validate_position_size, called with bankroll > 0, returns
\* is_valid = true, the exposure after acceptance, sum(open sizes)/bankroll
\* + effective_size, is at most MAX_POSITION_VALUE.
C2_ExposureWithinCap ==
    (ReturnedFrom({"validate_position_size"}) /\ RGt(call.bankroll, Zero)
        /\ ret.value.is_valid)
    => RLe(RAdd(RDiv(SumSizes(call.open_positions), call.bankroll),
                ret.value.size),
           MAX_POSITION_VALUE)


\* The simulated positions open after a step that were not open before it.
Opened ==
    {i \in 1..Len(scanner'.sim_positions) :
        \A j \in 1..Len(scanner.sim_positions) :
            scanner.sim_positions[j] # scanner'.sim_positions[i]}

\* C3: while the kill switch is active, no step of the scanner loop
\* (scan_markets, execute_kalshi_arbitrage, execute_polymarket_arbitrage)
\* opens a new simulated position.
C3_KillSwitchGatesOpening ==
    [][rm.kill_switch_active => Opened = {}]_vars

\* C4: every opportunity returned by check_single_condition or
\* check_multi_outcome has net_profit >= the detector's min_net_profit.
C4_NetProfitFloor ==
    ReturnedOpp({"check_single_condition", "check_multi_outcome"})
    => RGe(ret.value.v.net_profit, call.det.min_net_profit)

\* The quantities the single-condition claims speak of, for the call made.
CallBuyCost == RAdd(AskOr(call.yes_ask, call.yes_bid), AskOr(call.no_ask, call.no_bid))
CallSellValue == RAdd(call.yes_bid, call.no_bid)
CallLong == RLt(CallBuyCost, RSub(One, call.det.min_profit_threshold))
CallShort == RGt(CallSellValue, RAdd(One, call.det.min_profit_threshold))

\* C5 as stated: for any quote the LONG and SHORT price conditions of
\* check_single_condition are mutually exclusive, and the result is none
\* exactly when neither holds or the gross profit is below min_net_profit.
C5_ConditionsExclusive ==
    ReturnedFrom({"check_single_condition"})
    => /\ ~(CallLong /\ CallShort)
       /\ ~ret.value.some <=>
            \/ ~CallLong /\ ~CallShort
            \/ CallLong /\ RLt(RSub(One, CallBuyCost), call.det.min_net_profit)
            \/ CallShort /\ RLt(RSub(CallSellValue, One), call.det.min_net_profit)

\* C5 amended: a call returns at most one opportunity; the two price
\* conditions are mutually exclusive whenever buy_cost >= sell_value (no
\* crossed quote); when both hold the LONG rule decides; the result is none
\* exactly when neither condition holds or the gross profit of the deciding
\* rule is below min_net_profit.
C5_OneDirectionPerCall ==
    ReturnedFrom({"check_single_condition"})
    => /\ RGe(CallBuyCost, CallSellValue) => ~(CallLong /\ CallShort)
       /\ ret.value.some =>
            ret.value.v.arb_type = (IF CallLong THEN "single_long" ELSE "single_short")
       /\ ~ret.value.some <=>
            \/ ~CallLong /\ ~CallShort
            \/ CallLong /\ RLt(RSub(One, CallBuyCost), call.det.min_net_profit)
            \/ ~CallLong /\ CallShort
                 /\ RLt(RSub(CallSellValue, One), call.det.min_net_profit)

\* C5 witness: a crossed quote on which both price conditions hold and the
\* call returned the long opportunity alone.
C5_Witness ==
    /\ ReturnedOpp({"check_single_condition"})
    /\ CallLong /\ CallShort
    /\ ret.value.v.arb_type = "single_long"

\* C6: for every opportunity returned by check_multi_outcome, max_profit is
\* at most gross_profit times the minimum liquidity over the kept outcomes.
C6_MaxProfitLiquidityBound ==
    ReturnedOpp({"check_multi_outcome"})
    => RLe(ret.value.v.max_profit,
           RMul(ret.value.v.profit_per_dollar,
                MinLiquidity(RelevantOutcomes(call.outcomes,
                                              call.min_probability_threshold))))

KellyOf(c) ==
    RDiv(RSub(RMul(RSub(c.odds, One), c.probability), RSub(One, c.probability)),
         RSub(c.odds, One))

C8_SpreadCostNonNegative ==
    ReturnedOpp({"check_single_condition", "check_multi_outcome",
                 "create_ev_opportunity"})
    => RGe(ret.value.v.spread_cost, Zero)

\* C9: every opportunity returned by check_single_condition has
\* net_profit equal to profit_per_dollar.
C9_NetEqualsGross ==
    ReturnedOpp({"check_single_condition"})
    => ret.value.v.net_profit = ret.value.v.profit_per_dollar

\* C10: every ArbitrageOpportunity, whatever its type and whatever
\* net_profit was passed to the constructor, has net_profit =
\* max(0, profit_per_dollar - spread_cost), which is never negative.
C10_NetProfitRecomputed ==
    ReturnedOpp({"ArbitrageOpportunity", "check_single_condition",
                 "check_multi_outcome", "create_ev_opportunity"})
    => /\ ret.value.v.net_profit =
            RMax(Zero, RSub(ret.value.v.profit_per_dollar,
                            ret.value.v.spread_cost))
       /\ RGe(ret.value.v.net_profit, Zero)

\* C10 witness: a constructor call that passed a negative net_profit with a
\* spread above the gross profit, and was given net_profit = 0.
C10_Witness ==
    /\ ReturnedOpp({"ArbitrageOpportunity"})
    /\ RLt(call.net_profit, Zero)
    /\ RGt(call.spread_cost, call.profit_per_dollar)
    /\ ret.value.v.net_profit = Zero

\* C11: activate_kill_switch is idempotent. A call made while the switch is
\* already active leaves the RiskManager and the configuration as they were,
\* so the reason of the first activation is the one kept, whatever reason the
\* second call passes.
C11_ActivateIdempotent ==
    (ReturnedFrom({"activate_kill_switch"}) /\ call.obj.kill_switch_active)
        => /\ ret.value.rm = call.obj
           /\ ret.value.cfg = ConfigOf(call.obj)
           /\ ret.value.rm.kill_switch_reason = call.obj.kill_switch_reason

\* C12: daily_start_bankroll is reset exactly once per calendar day: the
\* first check_kill_switch call after midnight sets it to that call's
\* current_bankroll, also when the kill switch is active at that call, and no
\* other step (a later check the same day, an activation, a manual reset,
\* midnight itself) changes it.
C12_DailyResetOncePerDay ==
    [][IF call'.op = "check_kill_switch" /\ today > checked_day
       THEN rm'.daily_start_bankroll = call'.current_bankroll
       ELSE rm'.daily_start_bankroll = rm.daily_start_bankroll]_vars

\* The calls C13 is about: a bankroll that is zero or negative, or a check
\* of a RiskManager whose daily_start_bankroll is zero.
DegenerateCall ==
    \/ /\ call.op \in {"calculate_kelly_fraction", "calculate_arb_position_size", "validate_position_size"}
       /\ RLe(call.bankroll, Zero)
    \/ /\ call.op = "check_kill_switch"
       /\ \/ RLe(call.current_bankroll, Zero)
          \/ call.obj.daily_start_bankroll = Zero

\* C13: a degenerate bankroll never raises.  For a zero or negative bankroll
\* (and a zero daily_start_bankroll) calculate_kelly_fraction returns 0,
\* calculate_arb_position_size and validate_position_size return without
\* raising a size that is not negative, and check_kill_switch returns
\* without raising.
C13_DegenerateBankrollNeverRaises ==
    (ret.kind = "returned" /\ DegenerateCall) =>
        CASE call.op = "calculate_kelly_fraction" -> ret.value = Zero
          [] call.op = "calculate_arb_position_size" ->
                 /\ ~ret.value.raised
                 /\ RGe(ret.value.total_size, Zero)
          [] call.op = "validate_position_size" ->
                 /\ ~ret.value.raised
                 /\ RGe(ret.value.size, Zero)
          [] call.op = "check_kill_switch" -> ~ret.value.raised

\* C14: whenever validate_position_size returns is_valid = true, the size it
\* returns lies between MIN_POSITION_SIZE and MAX_POSITION_SIZE, in the
\* unchanged, the capped and the reduced branch alike; whenever it returns
\* is_valid = false, the size it returns is 0.
C14_ValidatedSizeWithinLimits ==
    (ReturnedFrom({"validate_position_size"}) /\ ~ret.value.raised) =>
        IF ret.value.is_valid
        THEN /\ RLe(MIN_POSITION_SIZE, ret.value.size)
             /\ RLe(ret.value.size, MAX_POSITION_SIZE)
        ELSE ret.value.size = Zero

\* A proposal reduced to the remaining headroom, which is smaller than the
\* proposal.
C14_Witness ==
    /\ ReturnedFrom({"validate_position_size"})
    /\ ret.value.is_valid
    /\ ret.value.reason = "Position reduced"
    /\ RLt(ret.value.size, call.size)

\* The loss condition of C15 on the step being taken: the bankroll passed is
\* below daily_start_bankroll and the loss, as a fraction of
\* daily_start_bankroll, strictly exceeds DAILY_LOSS_LIMIT.
LossExceedsLimit ==
    LET start == rm'.daily_start_bankroll
        current == call'.current_bankroll
    IN  /\ RLt(current, start)
        /\ start.n # 0
        /\ RGt(RDiv(RSub(start, current), start), DAILY_LOSS_LIMIT)

C16_OpenPositionsWithinCap ==
    Len(scanner.sim_positions) <= MAX_OPEN_POSITIONS

\* A call of calculate_arb_position_size that returned its dict.
Sized == ReturnedFrom({"calculate_arb_position_size"}) /\ ~ret.value.raised

\* bankroll * max_position_pct of the call.
BankrollCap == RMul(call.bankroll, call.max_position_pct)

\* max_profit / profit_per_dollar of the call's opportunity.
LiquidityCap ==
    RDiv(call.opportunity.max_profit, call.opportunity.profit_per_dollar)

\* C17: for a risk-free opportunity and a bankroll that is not negative,
\* total_size is at most bankroll * max_position_pct and, whenever
\* max_profit > 0, at most max_profit / profit_per_dollar; it equals the
\* smaller of the two caps (the bankroll cap alone when max_profit is 0).
C17_RiskFreeSizeIsSmallerCap ==
    (/\ Sized
     /\ call.opportunity.risk_level = "risk_free"
     /\ RGe(call.bankroll, Zero))
        => /\ RLe(ret.value.total_size, BankrollCap)
           /\ IF RGt(call.opportunity.max_profit, Zero)
              THEN /\ RLe(ret.value.total_size, LiquidityCap)
                   /\ ret.value.total_size = RMin(BankrollCap, LiquidityCap)
              ELSE ret.value.total_size = BankrollCap

\* An opportunity the detector returned whose liquidity cap is the smaller
\* one.
C17_Witness ==
    /\ Sized
    /\ call.opportunity \in DetectedOpportunities
    /\ call.opportunity.risk_level = "risk_free"
    /\ RGt(call.bankroll, Zero)
    /\ RGt(call.opportunity.max_profit, Zero)
    /\ RLt(LiquidityCap, BankrollCap)
    /\ ret.value.total_size = LiquidityCap

\* C18: for every single-long opportunity check_single_condition returns on
\* prices in [0,1], calculate_arb_position_size returns without raising,
\* with yes_size + no_size = total_size and
\* yes_size = total_size * yes_ask / (yes_ask + no_ask).
C18_SingleLongSplit ==
    (/\ call.op = "calculate_arb_position_size"
     /\ ret.kind = "returned"
     /\ call.opportunity \in DetectedOpportunities
     /\ call.opportunity.arb_type = "single_long")
        => /\ ~ret.value.raised
           /\ RAdd(ret.value.yes_size, ret.value.no_size) = ret.value.total_size
           /\ LET yes_ask == call.opportunity.details.yes_ask
                  no_ask == call.opportunity.details.no_ask
              IN  ret.value.yes_size =
                      RMul(ret.value.total_size,
                           RDiv(yes_ask, RAdd(yes_ask, no_ask)))

\* C19: for every multi-long opportunity check_multi_outcome returns,
\* outcome_sizes holds one allocation per kept outcome leg, each equal to
\* total_size * ask_i / yes_ask_sum, so that the allocations sum to
\* total_size, also when outcomes lack a name or share one.
C19_OneAllocationPerLeg ==
    (/\ Sized
     /\ call.opportunity \in DetectedOpportunities
     /\ call.opportunity.arb_type = "multi_long")
        => LET legs == call.opportunity.details.outcomes
               sizes == ret.value.outcome_sizes
               total_cost == call.opportunity.details.yes_ask_sum
           IN  /\ Cardinality(DOMAIN sizes) = Len(legs)
               /\ \A i \in DOMAIN legs :
                      sizes[OutcomeName(legs[i])] =
                          RMul(ret.value.total_size,
                               RDiv(OutcomeAsk(legs[i]), total_cost))

C21_EvRiskTier ==
    ReturnedFrom({"create_ev_opportunity"}) =>
        LET o == ret.value.v
            low == RGe(call.ev, P(5)) /\ RGe(call.quality_score, RInt(8))
            medium == RGe(call.ev, P(2)) /\ RGe(call.quality_score, RInt(6))
        IN  /\ ret.value.some
            /\ (o.risk_level = "low_risk") <=> low
            /\ (o.risk_level = "medium_risk") <=> (~low /\ medium)
            /\ (o.risk_level = "high_risk") <=> (~low /\ ~medium)
            /\ o.risk_level # "risk_free"
            /\ o.arb_type = "ev_edge"
            /\ o.spread_cost = Zero
            /\ o.confidence = RMin(One, RDiv(call.quality_score, RInt(10)))

\* An EV of exactly 0.05 with a quality of exactly 6: too low a quality for
\* the low tier, so the medium tier.
C21_Witness ==
    /\ ReturnedFrom({"create_ev_opportunity"})
    /\ call.ev = P(5) /\ call.quality_score = RInt(6)
    /\ ret.value.v.risk_level = "medium_risk"
    /\ ret.value.v.confidence = Frac(6, 10)

\* The step being taken is one call of scan_markets by run.
ScanStep == pc = "scan_markets" /\ pc' = "kalshi"

\* C22: the error counter escalates to the kill switch after exactly five
\* failed scan_markets cycles in a row.  error_count grows by one in a cycle
\* that raises, is set to 0 by a cycle that runs to completion and by
\* nothing else; the kill switch is activated, with the reason 'Too many
\* consecutive errors', at the end of exactly the cycle in which
\* error_count reaches 5; with fewer errors counted it is never activated
\* for that reason.
C22_ErrorEscalation ==
    [][/\ IF ScanStep
          THEN LET path == ret'.value
                   errors == scanner.error_count
               IN  /\ path = "error" => scanner'.error_count = errors + 1
                   /\ path = "scanned" => scanner'.error_count = 0
                   /\ path \notin {"error", "scanned"}
                          => scanner'.error_count = errors
                   /\ (/\ ~rm.kill_switch_active /\ rm'.kill_switch_active
                       /\ rm'.kill_switch_reason = TooManyErrors)
                          <=> (path = "error" /\ scanner'.error_count = 5)
                   /\ (/\ ~rm.kill_switch_active /\ rm'.kill_switch_active
                       /\ rm'.kill_switch_reason # TooManyErrors)
                          => path = "halted"
          ELSE scanner'.error_count = scanner.error_count /\ rm' = rm
       /\ rm'.kill_switch_reason = TooManyErrors
              => scanner'.error_count >= 5]_vars

\* The fifth failed cycle in a row has just activated the kill switch.
C22_Witness ==
    /\ call.op = "scan_markets" /\ ret = Returned("error")
    /\ scanner.error_count = 5
    /\ cycle = 4
    /\ rm.kill_switch_active
    /\ rm.kill_switch_reason = TooManyErrors

\* The edge rate profit_per_100 / 100 of the opportunity a basket row was
\* opened for.
EdgeRate(row) ==
    LET opp == CHOOSE o \in {Offers(0)[k] : k \in 1..2} :
                   ArbId(row.market_id[1], o) = row.market_id
    IN  RDiv(opp.profit_per_100, RInt(100))

\* C23: an arbitrage basket is opened with the synthetic entry price
\* 1 / (1 + edge_rate), edge_rate = profit_per_100 / 100; once resolved by
\* resolve_paper_trades and update_paper_trade_result it is recorded as a
\* win with a P&L of size * edge_rate, which is not negative.
C23_ArbBasketPnl ==
    \A i \in 1..Len(paper_trades) :
        LET row == paper_trades[i]
        IN  IsArbId(row.market_id) =>
                /\ row.entry_price = RDiv(One, RAdd(One, EdgeRate(row)))
                /\ row.status = "closed" =>
                       /\ row.win = Some(TRUE)
                       /\ row.pnl = Some(RMul(row.size, EdgeRate(row)))
                       /\ RGe(row.pnl.v, Zero)

\* A basket of 250 dollars opened at a 10% edge and resolved: 25 dollars.
C23_Witness ==
    \E i \in 1..Len(paper_trades) :
        /\ IsArbId(paper_trades[i].market_id)
        /\ paper_trades[i].status = "closed"
        /\ paper_trades[i].size = RInt(250)
        /\ paper_trades[i].pnl = Some(RInt(25))
        /\ scanner.bankroll = RInt(5025)

\* The sum of the P&L of the rows 1..n that are open in old and closed in
\* new.
RECURSIVE PnlClosed(_, _, _)
PnlClosed(old, new, n) ==
    IF n = 0 THEN Zero
    ELSE IF old[n].status = "open" /\ new[n].status = "closed"
    THEN RAdd(PnlClosed(old, new, n - 1), new[n].pnl.v)
    ELSE PnlClosed(old, new, n - 1)

C26_ExposureWithinBankroll ==
    /\ RLe(SumSizes(scanner.sim_positions), scanner.bankroll)
    /\ RGt(scanner.bankroll, Zero)

\* A lost trade has reduced the bankroll while another position is open.
C26_Witness ==
    /\ RLt(scanner.bankroll, INITIAL_BANKROLL)
    /\ scanner.sim_positions # <<>>
    /\ \E i \in 1..Len(paper_trades) : paper_trades[i].win = Some(FALSE)

\* C27: check_single_condition tests the LONG rule first and commits to it:
\* whenever buy_cost < 1 - min_profit_threshold the result is the
\* single-long opportunity, or none when the long gross profit is below
\* min_net_profit; it is never single-short, whatever the bids are.
C27_LongRuleCommits ==
    (ReturnedFrom({"check_single_condition"}) /\ CallLong)
    => IF RLt(RSub(One, CallBuyCost), call.det.min_net_profit)
       THEN ~ret.value.some
       ELSE ret.value.some /\ ret.value.v.arb_type = "single_long"

\* Both price conditions hold, the short gross profit meets min_net_profit,
\* the long one does not, and the call returned none.
C27_Witness ==
    /\ ReturnedFrom({"check_single_condition"})
    /\ CallLong /\ CallShort
    /\ RLt(RSub(One, CallBuyCost), call.det.min_net_profit)
    /\ RGe(RSub(CallSellValue, One), call.det.min_net_profit)
    /\ ~ret.value.some

OpenIds(positions) ==
    {positions[i].market_id : i \in 1..Len(positions)}

\* C28: in every reachable scanner state no two open simulated positions
\* share a market id or arb id; simulate_trade, simulate_kalshi_arb_trade
\* and simulate_polymarket_arb_trade called on an id that is open return
\* False and change nothing; and the open set holds exactly the ids of the
\* open rows of paper_trades, so a resolved id has left it.
C28_OnePositionPerId ==
    LET ps == scanner.sim_positions
        refused == Simulated(scanner, paper_trades, FALSE, FALSE)
    IN  /\ \A i, j \in 1..Len(ps) :
               ps[i].market_id = ps[j].market_id => i = j
        /\ OpenIds(ps) = OpenIds(get_open_paper_trades(paper_trades))
        /\ Len(ps) = Len(get_open_paper_trades(paper_trades))
        /\ \A m \in MarketsAt(now), side \in {"YES", "NO"} :
               m.ticker \in OpenIds(ps)
               => simulate_trade(scanner, paper_trades, m,
                                 BASE_POSITION_SIZE, side) = refused
        /\ \A k \in 1..Len(Offers(now)) :
               /\ ArbId("KALSHI_ARB", Offers(now)[k]) \in OpenIds(ps)
                  => simulate_kalshi_arb_trade(scanner, paper_trades,
                                               Offers(now)[k], now) = refused
               /\ ArbId("POLY_ARB", Offers(now)[k]) \in OpenIds(ps)
                  => simulate_polymarket_arb_trade(scanner, paper_trades,
                                                   Offers(now)[k], now)
                         = refused

\* A basket is open while the scans offer it again, and an earlier trade
\* has been resolved and is no longer in the open set.
C28_Witness ==
    /\ \E k \in 1..Len(Offers(now)) :
           ArbId("KALSHI_ARB", Offers(now)[k])
               \in OpenIds(scanner.sim_positions)
    /\ \E i \in 1..Len(paper_trades) :
           /\ paper_trades[i].status = "closed"
           /\ paper_trades[i].market_id \notin OpenIds(scanner.sim_positions)

\* What simulate_kalshi_arb_trade or simulate_polymarket_arb_trade, by the
\* prefix of the id, answers at time t for the k-th offered basket.
ArbAttempt(prefix, k, t) ==
    IF prefix = "KALSHI_ARB"
    THEN simulate_kalshi_arb_trade(scanner, paper_trades, Offers(t)[k], t)
    ELSE simulate_polymarket_arb_trade(scanner, paper_trades, Offers(t)[k], t)

\* In the current state, a basket resolved at time cd[X] and not open is
\* refused up to and including cd[X] + 3600 seconds, and after that its
\* entry is dropped and, nothing else being open, it is opened.
CooldownGate ==
    LET cd == scanner._resolved_arb_cooldown
        ps == scanner.sim_positions
    IN  \A X \in {Y \in DOMAIN cd \ OpenIds(ps) : IsArbId(Y)} :
        \A k \in {j \in 1..Len(Offers(now)) :
                    ArbId(X[1], Offers(now)[j]) = X} :
        \A t \in {now, cd[X] + _ARB_COOLDOWN_SECONDS,
                  cd[X] + _ARB_COOLDOWN_SECONDS + 1} :
        \A a \in {ArbAttempt(X[1], k, t)} :
            IF t - cd[X] > _ARB_COOLDOWN_SECONDS
            THEN /\ X \notin DOMAIN a.scanner._resolved_arb_cooldown
                 /\ ps = <<>> => /\ a.value = TRUE
                                 /\ X \in OpenIds(a.scanner.sim_positions)
            ELSE /\ a.value = FALSE
                 /\ a.table = paper_trades
                 /\ a.scanner.sim_positions = ps
                 /\ X \in DOMAIN a.scanner._resolved_arb_cooldown

\* C29: a resolution records the basket with the time of the resolution;
\* the record is kept, with that time, until more than 3600 seconds have
\* elapsed; no position on a recorded basket is opened before that, and
\* opening it removes the record.
C29_ArbCooldown ==
    [][LET cd == scanner._resolved_arb_cooldown
           cdn == scanner'._resolved_arb_cooldown
           resolved == {paper_trades[i].market_id :
                          i \in {j \in 1..Len(paper_trades) :
                                   /\ paper_trades[j].status = "open"
                                   /\ paper_trades'[j].status = "closed"}}
           opened == {paper_trades'[i].market_id :
                        i \in (Len(paper_trades) + 1)..Len(paper_trades')}
       IN  /\ CooldownGate
           /\ \A X \in resolved : X \in DOMAIN cdn /\ cdn[X] = now
           /\ \A X \in DOMAIN cdn : X \in resolved \/ X \in DOMAIN cd
           /\ \A X \in DOMAIN cd \ resolved :
                  IF X \in DOMAIN cdn THEN cdn[X] = cd[X]
                  ELSE now - cd[X] > _ARB_COOLDOWN_SECONDS
           /\ \A X \in opened :
                  (IsArbId(X) /\ X \in DOMAIN cd)
                  => /\ now - cd[X] > _ARB_COOLDOWN_SECONDS
                     /\ X \notin DOMAIN cdn
      ]_vars

\* A basket was resolved, its cooldown expired, and it is open again.
C29_Witness ==
    \E i, j \in 1..Len(paper_trades) :
        /\ i < j
        /\ IsArbId(paper_trades[i].market_id)
        /\ paper_trades[j].market_id = paper_trades[i].market_id
        /\ paper_trades[i].status = "closed"
        /\ paper_trades[j].status = "open"
        /\ paper_trades[j].market_id \notin DOMAIN scanner._resolved_arb_cooldown

\* C30: while WATCH_MODE is true, scan_markets, execute_kalshi_arbitrage
\* and execute_polymarket_arbitrage leave the set of open positions and
\* the bankroll unchanged, whatever opportunities are detected.
C30_WatchModeLeavesPositions ==
    [][watch_mode => /\ scanner'.sim_positions = scanner.sim_positions
                     /\ scanner'.bankroll = scanner.bankroll]_vars

=============================================================================
